---- MODULE Spec2Model ----
(***************************************************************************)
(* The four Ansible modules of kubealex.eda (eda_projects,                 *)
(* eda_decision_environment, eda_credentials, eda_activations) run against *)
(* one EDA controller.  A run of a module walks its list of items; every   *)
(* HTTP call of the run is one step, so that two runs of the same module   *)
(* can interleave between a probe and the write that follows it.           *)
(***************************************************************************)
EXTENDS Integers, Sequences, FiniteSets, TLC

VARIABLES kind, batch, mode, remote, runs, calls, faults, snapshot

vars == <<kind, batch, mode, remote, runs, calls, faults, snapshot>>

\* ------------------------------------------------------------------ bounds
MaxItems == 2
MaxConcItems == 1
MaxFaults == 1

Runs == {1, 2}

\* ------------------------------------------------------- Python values
\* None / a missing id (ids of the controller are positive).
NoId == 0
\* None / a key that is not in a dict, for string values.
Absent == "<absent>"
\* Truthiness of an optional string: None and '' are falsy.
Truthy(s) == s \notin {Absent, ""}

\* Names are sequences of characters, so that the URL conversions below
\* are computed, not assumed.
N_p == <<"p">>
N_p_q == <<"p", " ", "q">>
N_pplusq == <<"p", "+", "q">>
N_x == <<"x">>
N_empty == <<>>

\* str.replace(' ', '+') as applied to a name before it is put in a URL.
replace_space_plus(name) ==
  [i \in DOMAIN name |-> IF name[i] = " " THEN "+" ELSE name[i]]

\* The name is put in the URL as it is (eda_credentials, credential lookup
\* of eda_projects): the transport percent-encodes a space, which the
\* controller decodes back to a space, and leaves '+' alone.
raw_name(name) == name

\* The controller decodes the query value of ?name=<exact, space-as-plus>:
\* a '+' of the query stands for a space.
unquote_plus(q) ==
  [i \in DOMAIN q |-> IF q[i] = "+" THEN " " ELSE q[i]]

\* ------------------------------------------------------------ HTTP status
OK == 200
CREATED == 201
BAD_REQUEST == 400
NOT_FOUND == 404
SERVER_ERROR == 500

\* response.status_code in (200, 201)
is_success(status) == status \in {OK, CREATED}

\* requests.post(..., timeout=15); the other calls pass no timeout.
TIMEOUT == 15
NoTimeout == 0

\* A response: status_code, the JSON keys the modules read (count, results,
\* id, name) and the raw text.
Response(status, results, id, name_errors, text) ==
  [status_code |-> status, count |-> Len(results), results |-> results,
   id |-> id, name |-> name_errors, text |-> text]

AlreadyExists == "already exists"

ErrorResponse(status) == Response(status, <<>>, NoId, Absent, "error")

\* -------------------------------------------------------- the controller
\* GET {collection}/?name=q : the records whose name is the decoded query.
list_by_name(coll, q) ==
  Response(OK, SelectSeq(coll, LAMBDA rec : rec.name = unquote_plus(q)),
           NoId, Absent, "list")

\* GET rulebooks/?project_id=n
list_rulebooks(coll, pid) ==
  Response(OK, SelectSeq(coll, LAMBDA rec : rec.project_id = pid),
           NoId, Absent, "list")

\* GET users/me/awx-tokens/ : no server-side filter.
list_tokens(coll) == Response(OK, coll, NoId, Absent, "list")

IntFields == {"id", "credential_id", "project_id", "decision_environment_id",
              "rulebook_id", "awx_token_id", "extra_var_id"}
AlwaysFields == {"name", "is_enabled"}

\* A key of a JSON body carries a value.
Present(f, v) ==
  IF f \in AlwaysFields THEN TRUE
  ELSE IF f \in IntFields THEN v # NoId
  ELSE v # Absent

NameTaken(coll, name, exceptId) ==
  \E i \in DOMAIN coll : coll[i].name = name /\ coll[i].id # exceptId

HasId(coll, id) == \E i \in DOMAIN coll : coll[i].id = id

\* POST {collection}/ : a new record with the next id, unless the name is
\* taken (400, name: [... already exists]).  Result: <<collection, response>>.
post_record(coll, body) ==
  IF NameTaken(coll, body.name, NoId)
  THEN <<coll, Response(BAD_REQUEST, <<>>, NoId, AlreadyExists,
                        "name already exists")>>
  ELSE LET id == Len(coll) + 1
           rec == [f \in DOMAIN body \cup {"id"} |->
                     IF f = "id" THEN id ELSE body[f]]
       IN <<Append(coll, rec), Response(CREATED, <<>>, id, Absent, "created")>>

\* PATCH {collection}/{id}/ : the keys of the body overwrite the record, the
\* others keep their value.
patch_record(coll, id, body) ==
  IF ~HasId(coll, id)
  THEN <<coll, ErrorResponse(NOT_FOUND)>>
  ELSE IF NameTaken(coll, body.name, id)
  THEN <<coll, Response(BAD_REQUEST, <<>>, NoId, AlreadyExists,
                        "name already exists")>>
  ELSE <<[i \in DOMAIN coll |->
            IF coll[i].id # id THEN coll[i]
            ELSE [f \in DOMAIN coll[i] |->
                    IF f \in DOMAIN body /\ Present(f, body[f])
                    THEN body[f] ELSE coll[i][f]]],
         Response(OK, <<>>, id, Absent, "updated")>>

\* POST extra-vars/ : a detached blob, no unique key.
post_extra_var(coll, body) ==
  LET id == Len(coll) + 1
  IN <<Append(coll, [id |-> id, extra_var |-> body.extra_var]),
       Response(CREATED, <<>>, id, Absent, "created")>>

\* The controller may answer any call with a server error.
MayFault == IF faults < MaxFaults THEN {FALSE, TRUE} ELSE {FALSE}

Answer(fault, resp) == IF fault THEN ErrorResponse(SERVER_ERROR) ELSE resp

\* ------------------------------------------------------------- the inputs
ProjectItems ==
  [name : {N_p, N_p_q, N_pplusq, N_x}, git_url : {"u"},
   description : {Absent}, credential : {N_empty}]
  \cup [name : {N_p_q}, git_url : {"u"},
        description : {"d"}, credential : {N_p, N_x}]

DenvItems ==
  [name : {N_p, N_p_q, N_pplusq}, image_url : {Absent}]
  \cup [name : {N_p_q}, image_url : {"img"}]

CredentialItems ==
  [name : {N_p, N_p_q, N_pplusq}, description : {Absent},
   username : {"user"}, secret : {"s"}, credential_type : {"Container Registry"}]
  \cup [name : {N_p_q}, description : {"d"},
        username : {"user"}, secret : {"s"}, credential_type : {"Container Registry"}]

ActivationBase ==
  [name |-> N_p, project_name |-> N_p, rulebook |-> N_p, extra_vars |-> "",
   restart_policy |-> "always", enabled |-> TRUE, decision_env |-> N_p,
   controller_token |-> N_p]

ActivationItems ==
  {[ActivationBase EXCEPT !.name = n, !.extra_vars = v] :
      n \in {N_p, N_p_q}, v \in {"", "v"}}
  \cup {[ActivationBase EXCEPT !.project_name = N_p_q],
        [ActivationBase EXCEPT !.extra_vars = "v", !.project_name = N_x],
        [ActivationBase EXCEPT !.extra_vars = "v", !.project_name = N_empty],
        [ActivationBase EXCEPT !.extra_vars = "v", !.decision_env = N_x],
        [ActivationBase EXCEPT !.extra_vars = "v", !.controller_token = N_x],
        [ActivationBase EXCEPT !.extra_vars = "v", !.rulebook = N_x]}

Kinds == {"projects", "decision_envs", "credentials", "activations"}

ItemsOf(k) ==
  CASE k = "projects" -> ProjectItems
    [] k = "decision_envs" -> DenvItems
    [] k = "credentials" -> CredentialItems
    [] OTHER -> ActivationItems

SeqsUpTo(S, n) == UNION {[1..m -> S] : m \in 0..n}

\* ------------------------------------------------- the controller at start
InitRemote ==
  [projects |-> <<[id |-> 1, name |-> N_p, url |-> "u0",
                   description |-> "d0", credential_id |-> NoId],
                 [id |-> 2, name |-> N_p_q, url |-> "u0",
                   description |-> Absent, credential_id |-> NoId]>>,
   decision_environments |-> <<[id |-> 1, name |-> N_p, image_url |-> "img0"]>>,
   credentials |-> <<[id |-> 1, name |-> N_p, description |-> "d0",
                      username |-> "user", secret |-> "s",
                      credential_type |-> "Container Registry"]>>,
   activations |-> <<>>,
   extra_vars |-> <<>>,
   rulebooks |-> <<[id |-> 1, name |-> N_p_q, project_id |-> 1],
                   [id |-> 2, name |-> N_p, project_id |-> 2],
                   [id |-> 3, name |-> N_p, project_id |-> 1]>>,
   awx_tokens |-> <<[id |-> 1, name |-> N_p_q], [id |-> 2, name |-> N_p]>>]

\* ------------------------------------------------------------ a module run
FirstPc ==
  CASE kind = "projects" -> "get_project_credential_id"
    [] kind = "decision_envs" -> "get_decision_environment_id"
    [] kind = "credentials" -> "check_credential_exists"
    [] OTHER -> "get_project_id"

NewRun ==
  [status |-> "idle", idx |-> 0, pc |-> "main",
   project_credential_id |-> NoId, project_id |-> NoId, method |-> "POST",
   denv_id |-> NoId, credential_id |-> NoId, awx_token_id |-> NoId,
   rulebook_list |-> <<>>, extra_var_id |-> NoId,
   response_list |-> <<>>, changed |-> FALSE, has_result |-> FALSE,
   msg |-> [msg |-> "", name |-> N_empty, status |-> NoId, text |-> Absent]]

Msg(m, name, text) == [msg |-> m, name |-> name, status |-> NoId, text |-> text]

\* An exit_json whose changed flag tells whether the run reports an entry.
exit_json_changed_if_entries(run) ==
  [run EXCEPT !.status = "ok", !.changed = Len(run.response_list) > 0,
              !.has_result = TRUE]

\* module.exit_json(changed=True, <kind>=response_list)
exit_json(run) ==
  [run EXCEPT !.status = "ok", !.changed = TRUE, !.has_result = TRUE]

\* The end of the body of the for loop: the next item, or the exit_json
\* after the loop.
next_item(run) ==
  IF run.idx < Len(batch)
  THEN [run EXCEPT !.idx = @ + 1, !.pc = FirstPc]
  ELSE exit_json(run)

\* A fail_json that records msg and returns, so that the loop goes on.
fail_json_returns(run, msg) == next_item([run EXCEPT !.msg = msg])

\* module.fail_json(msg=...): the process exits, nothing is reported but msg.
fail_json(run, msg) == [run EXCEPT !.status = "failed", !.msg = msg]

\* One HTTP call as the run issued it and as the controller answered it.
\* collection_names: the names the target collection held when it was issued.
Call(run, method, coll, id, query, body, timeout, resp, names) ==
  [item |-> run.idx, method |-> method, coll |-> coll, id |-> id,
   query |-> query, body |-> body, timeout |-> timeout,
   status_code |-> resp.status_code, resp_id |-> resp.id,
   name_error |-> resp.name, text |-> resp.text,
   found |-> resp.count,
   first_id |-> IF Len(resp.results) > 0 THEN resp.results[1].id ELSE NoId,
   result_names |-> {resp.results[i].name : i \in DOMAIN resp.results},
   collection_names |-> names]

NoBody == [name |-> N_empty]

NamesOf(coll) == {coll[i].name : i \in DOMAIN coll}

Running(r) == runs[r].status = "running"

Item(r) == batch[runs[r].idx]

Step(r, run, call, rem, fault) ==
  /\ runs' = [runs EXCEPT ![r] = run]
  /\ calls' = [calls EXCEPT ![r] = Append(@, call)]
  /\ remote' = rem
  /\ faults' = IF fault THEN faults + 1 ELSE faults
  /\ UNCHANGED <<kind, batch, mode, snapshot>>

LocalStep(r, run) ==
  /\ runs' = [runs EXCEPT ![r] = run]
  /\ UNCHANGED <<kind, batch, mode, remote, calls, faults, snapshot>>

\* snapshot: the controller as the first of two runs in sequence left it.
\* main(): AnsibleModule(...) then the create function, whose loop starts
\* with the first item or, on an empty list, falls through to exit_json.
main(r) ==
  /\ runs[r].status = "idle"
  /\ mode = "seq" /\ r = 2 => runs[1].status \in {"ok", "failed"}
  /\ runs' = [runs EXCEPT ![r] = next_item([runs[r] EXCEPT !.status = "running"])]
  /\ snapshot' = IF mode = "seq" /\ r = 2 THEN remote ELSE snapshot
  /\ UNCHANGED <<kind, batch, mode, remote, calls, faults>>

\* ---------------------------------------------------------- eda_projects
\* A get_project_credential_id without its early return.
declares_credential_always(item) == TRUE

\* if not project_credential: return None
declares_credential(item) == item.credential # N_empty

\* get_project_credential_id, when the item declares no credential.
no_project_credential(r) ==
  /\ Running(r) /\ runs[r].pc = "get_project_credential_id"
  /\ ~declares_credential(Item(r))
  /\ LocalStep(r, [runs[r] EXCEPT !.project_credential_id = NoId,
                                  !.pc = "check_project"])

\* A lookup that takes an empty result set for "no credential".
project_credential_result_lenient(run, resp) ==
  [run EXCEPT !.project_credential_id =
                 IF is_success(resp.status_code) /\ Len(resp.results) > 0
                 THEN resp.results[1].id ELSE NoId,
              !.pc = "check_project"]

\* What get_project_credential_id makes of the response: the id of the first
\* result; no result raises IndexError, which main() turns into fail_json;
\* a non-success status returns None.
project_credential_result(run, resp) ==
  IF is_success(resp.status_code)
  THEN IF Len(resp.results) = 0
       THEN fail_json(run, Msg("list index out of range", N_empty, Absent))
       ELSE [run EXCEPT !.project_credential_id = resp.results[1].id,
                        !.pc = "check_project"]
  ELSE [run EXCEPT !.project_credential_id = NoId, !.pc = "check_project"]

get_project_credential_id(r) ==
  /\ Running(r) /\ runs[r].pc = "get_project_credential_id"
  /\ declares_credential(Item(r))
  /\ \E fault \in MayFault :
       LET q == raw_name(Item(r).credential)
           resp == Answer(fault, list_by_name(remote.credentials, q))
       IN Step(r, project_credential_result(runs[r], resp),
               Call(runs[r], "GET", "credentials", NoId, q, NoBody, NoTimeout,
                    resp, NamesOf(remote.credentials)),
               remote, fault)

\* A create_project that always creates.
project_method_always_post(resp) == "POST"

\* method = "PATCH" if project_exists else "POST"
project_method(resp) == IF Len(resp.results) > 0 THEN "PATCH" ELSE "POST"

\* project_id = results[0].id if project_exists else None
project_probe_id(resp) ==
  IF Len(resp.results) > 0 THEN resp.results[1].id ELSE NoId

\* The existence probe of create_project and its else branch.
project_probe_result(run, resp, name) ==
  IF is_success(resp.status_code)
  THEN [run EXCEPT !.method = project_method(resp),
                   !.project_id = project_probe_id(resp),
                   !.pc = "write_project"]
  ELSE fail_json(run, Msg("Failed to check project", name, resp.text))

check_project(r) ==
  /\ Running(r) /\ runs[r].pc = "check_project"
  /\ \E fault \in MayFault :
       LET q == replace_space_plus(Item(r).name)
           resp == Answer(fault, list_by_name(remote.projects, q))
       IN Step(r, project_probe_result(runs[r], resp, Item(r).name),
               Call(runs[r], "GET", "projects", NoId, q, NoBody, NoTimeout,
                    resp, NamesOf(remote.projects)),
               remote, fault)

\* The body of the project write.
project_body(item, project_credential_id) ==
  [name |-> item.name, url |-> item.git_url,
   description |-> IF Truthy(item.description) THEN item.description ELSE Absent,
   credential_id |-> IF project_credential_id # NoId
                     THEN project_credential_id ELSE NoId]

\* The controller's answer to method url body.
write_record(coll, method, id, body) ==
  IF method = "PATCH" THEN patch_record(coll, id, body)
  ELSE post_record(coll, body)

\* The classification of the answer to the project write.
project_write_result(run, resp, name) ==
  IF is_success(resp.status_code)
  THEN next_item([run EXCEPT !.response_list =
                     Append(@, [item |-> run.idx, id |-> resp.id, soft |-> FALSE])])
  ELSE fail_json(run, Msg("Failed to create/update project", name, resp.text))

write_project(r) ==
  /\ Running(r) /\ runs[r].pc = "write_project"
  /\ \E fault \in MayFault :
       LET body == project_body(Item(r), runs[r].project_credential_id)
           \* url: projects/{id}/ if project_id else projects/
           id == runs[r].project_id
           out == write_record(remote.projects, runs[r].method, id, body)
           resp == Answer(fault, out[2])
       IN Step(r, project_write_result(runs[r], resp, Item(r).name),
               Call(runs[r], runs[r].method, "projects", id, N_empty, body,
                    NoTimeout, resp, NamesOf(remote.projects)),
               IF fault THEN remote ELSE [remote EXCEPT !.projects = out[1]],
               fault)

create_project(r) ==
  \/ no_project_credential(r)
  \/ get_project_credential_id(r)
  \/ check_project(r)
  \/ write_project(r)

\* ----------------------------------------------- eda_decision_environment
\* get_decision_environment_id / check_credential_exists: the id of the
\* first result when the status is a success and count > 0, else None.
id_if_counted(resp) ==
  IF is_success(resp.status_code) /\ resp.count > 0
  THEN resp.results[1].id
  ELSE NoId

get_decision_environment_id(r) ==
  /\ Running(r) /\ runs[r].pc = "get_decision_environment_id"
  /\ \E fault \in MayFault :
       LET q == replace_space_plus(Item(r).name)
           resp == Answer(fault, list_by_name(remote.decision_environments, q))
       IN Step(r, [runs[r] EXCEPT !.denv_id = id_if_counted(resp),
                                  !.pc = "write_decision_environment"],
               Call(runs[r], "GET", "decision_environments", NoId, q, NoBody,
                    NoTimeout, resp, NamesOf(remote.decision_environments)),
               remote, fault)

\* decision_env.get("image_url", "")
denv_body(item) ==
  [name |-> item.name,
   image_url |-> IF item.image_url = Absent THEN "" ELSE item.image_url]

\* "PATCH" if denv_id else "POST"; if credential_id: patch else: post
method_for(id) == IF id # NoId THEN "PATCH" ELSE "POST"

\* The classification of the answer to a decision-environment or
\* credential write.
write_result(run, resp, m, name, text) ==
  IF is_success(resp.status_code)
  THEN next_item([run EXCEPT !.response_list =
                     Append(@, [item |-> run.idx, id |-> resp.id, soft |-> FALSE])])
  ELSE fail_json(run, Msg(m, name, text))

write_decision_environment(r) ==
  /\ Running(r) /\ runs[r].pc = "write_decision_environment"
  /\ \E fault \in MayFault :
       LET body == denv_body(Item(r))
           id == runs[r].denv_id
           method == method_for(id)
           out == write_record(remote.decision_environments, method, id, body)
           resp == Answer(fault, out[2])
       IN Step(r, write_result(runs[r], resp,
                               "Failed to create or update decision environment",
                               Item(r).name, resp.text),
               Call(runs[r], method, "decision_environments", id, N_empty,
                    body, NoTimeout, resp,
                    NamesOf(remote.decision_environments)),
               IF fault THEN remote
               ELSE [remote EXCEPT !.decision_environments = out[1]],
               fault)

create_decision_environments(r) ==
  \/ get_decision_environment_id(r)
  \/ write_decision_environment(r)

\* ------------------------------------------------------- eda_credentials
check_credential_exists(r) ==
  /\ Running(r) /\ runs[r].pc = "check_credential_exists"
  /\ \E fault \in MayFault :
       LET q == raw_name(Item(r).name)
           resp == Answer(fault, list_by_name(remote.credentials, q))
       IN Step(r, [runs[r] EXCEPT !.credential_id = id_if_counted(resp),
                                  !.pc = "write_credential"],
               Call(runs[r], "GET", "credentials", NoId, q, NoBody,
                    NoTimeout, resp, NamesOf(remote.credentials)),
               remote, fault)

credential_body(item) ==
  [name |-> item.name, credential_type |-> item.credential_type,
   username |-> item.username, secret |-> item.secret,
   description |-> IF Truthy(item.description) THEN item.description ELSE Absent]

write_credential(r) ==
  /\ Running(r) /\ runs[r].pc = "write_credential"
  /\ \E fault \in MayFault :
       LET body == credential_body(Item(r))
           id == runs[r].credential_id
           method == method_for(id)
           out == write_record(remote.credentials, method, id, body)
           resp == Answer(fault, out[2])
       IN Step(r, write_result(runs[r], resp,
                               "Failed to create or update credential",
                               Item(r).name, Absent),
               Call(runs[r], method, "credentials", id, N_empty, body,
                    NoTimeout, resp, NamesOf(remote.credentials)),
               IF fault THEN remote ELSE [remote EXCEPT !.credentials = out[1]],
               fault)

create_or_update_credentials(r) ==
  \/ check_credential_exists(r)
  \/ write_credential(r)

\* ------------------------------------------------------- eda_activations
\* The three "is required" checks at the head of the loop body.
required_fields(r) ==
  /\ Running(r) /\ runs[r].pc = "get_project_id"
  /\ \/ Item(r).project_name = N_empty
     \/ Item(r).decision_env = N_empty
     \/ Item(r).controller_token = N_empty
  /\ LocalStep(r, fail_json(runs[r],
        IF Item(r).project_name = N_empty
        THEN Msg("Project name is required for each activation.", N_empty, Absent)
        ELSE IF Item(r).decision_env = N_empty
        THEN Msg("Decision environment is required for each activation.",
                 N_empty, Absent)
        ELSE Msg("Controller token name is required for each activation.",
                 N_empty, Absent)))

HasRequired(item) ==
  /\ item.project_name # N_empty
  /\ item.decision_env # N_empty
  /\ item.controller_token # N_empty

\* get_project_id / get_denv_id: the id of the first result of a successful
\* lookup, else None.
first_id(resp) ==
  IF is_success(resp.status_code) /\ Len(resp.results) > 0
  THEN resp.results[1].id
  ELSE NoId

\* A resolver whose "not found" checks are missing.
require_id_unchecked(run, id, msg, pc) == [run EXCEPT !.pc = pc]

\* if <id> is None: module.fail_json(msg=... not found)
require_id(run, id, msg, pc) ==
  IF id = NoId THEN fail_json(run, msg) ELSE [run EXCEPT !.pc = pc]

get_project_id(r) ==
  /\ Running(r) /\ runs[r].pc = "get_project_id"
  /\ HasRequired(Item(r))
  /\ \E fault \in MayFault :
       LET q == replace_space_plus(Item(r).project_name)
           resp == Answer(fault, list_by_name(remote.projects, q))
           id == first_id(resp)
       IN Step(r, require_id([runs[r] EXCEPT !.project_id = id], id,
                             Msg("Project not found.",
                                 Item(r).project_name, Absent),
                             "get_denv_id"),
               Call(runs[r], "GET", "projects", NoId, q, NoBody, NoTimeout,
                    resp, NamesOf(remote.projects)),
               remote, fault)

get_denv_id(r) ==
  /\ Running(r) /\ runs[r].pc = "get_denv_id"
  /\ \E fault \in MayFault :
       LET q == replace_space_plus(Item(r).decision_env)
           resp == Answer(fault, list_by_name(remote.decision_environments, q))
           id == first_id(resp)
       IN Step(r, require_id([runs[r] EXCEPT !.denv_id = id], id,
                             Msg("Decision environment not found.",
                                 Item(r).decision_env, Absent),
                             "get_token_id"),
               Call(runs[r], "GET", "decision_environments", NoId, q, NoBody,
                    NoTimeout, resp, NamesOf(remote.decision_environments)),
               remote, fault)

\* A match that takes the first record of the list, whatever its name.
first_named_any(results, name) ==
  IF Len(results) > 0 THEN results[1].id ELSE NoId

\* The id of the first record of a list with exactly this name, else None.
first_named(results, name) ==
  LET hits == SelectSeq(results, LAMBDA rec : rec.name = name)
  IN IF Len(hits) > 0 THEN hits[1].id ELSE NoId

\* get_token_id: the caller's tokens are listed and matched by name here.
token_id(resp, name) ==
  IF is_success(resp.status_code) THEN first_named(resp.results, name) ELSE NoId

get_token_id(r) ==
  /\ Running(r) /\ runs[r].pc = "get_token_id"
  /\ \E fault \in MayFault :
       LET resp == Answer(fault, list_tokens(remote.awx_tokens))
           id == token_id(resp, Item(r).controller_token)
       IN Step(r, require_id([runs[r] EXCEPT !.awx_token_id = id], id,
                             Msg("Controller token not found for user",
                                 Item(r).controller_token, Absent),
                             "get_rulebooks"),
               Call(runs[r], "GET", "awx_tokens", NoId, N_empty, NoBody,
                    NoTimeout, resp, NamesOf(remote.awx_tokens)),
               remote, fault)

\* rulebook_list: the first rulebook of the answer with the item's rulebook
\* name; empty when there is none or the status is not a success.
rulebooks_named(resp, name) ==
  IF is_success(resp.status_code) /\ first_named(resp.results, name) # NoId
  THEN <<first_named(resp.results, name)>>
  ELSE <<>>

\* An extra-vars POST for every item, whatever its text.
has_extra_vars_always(item) == TRUE

\* "extra_vars" in activation and activation["extra_vars"]
has_extra_vars(item) == Truthy(item.extra_vars)

get_rulebooks(r) ==
  /\ Running(r) /\ runs[r].pc = "get_rulebooks"
  /\ \E fault \in MayFault :
       LET pid == runs[r].project_id
           resp == Answer(fault, list_rulebooks(remote.rulebooks, pid))
           list == rulebooks_named(resp, Item(r).rulebook)
       IN Step(r, require_id([runs[r] EXCEPT !.rulebook_list = list,
                                                 !.extra_var_id = NoId],
                             IF list = <<>> THEN NoId ELSE list[1],
                             Msg("Rulebook not found in project",
                                 Item(r).rulebook, Absent),
                             IF has_extra_vars(Item(r))
                             THEN "post_extra_vars" ELSE "post_activation"),
               Call(runs[r], "GET", "rulebooks", pid, N_empty, NoBody,
                    NoTimeout, resp, NamesOf(remote.rulebooks)),
               remote, fault)

\* What the answer to the extra-vars POST leaves in the body: extra_var_id
\* on a success, nothing otherwise; the activation POST follows either way.
extra_vars_result(run, resp) ==
  [run EXCEPT !.extra_var_id = IF is_success(resp.status_code)
                               THEN resp.id ELSE NoId,
              !.pc = "post_activation"]

post_extra_vars(r) ==
  /\ Running(r) /\ runs[r].pc = "post_extra_vars"
  /\ \E fault \in MayFault :
       LET body == [name |-> N_empty, extra_var |-> Item(r).extra_vars]
           out == post_extra_var(remote.extra_vars, body)
           resp == Answer(fault, out[2])
       IN Step(r, extra_vars_result(runs[r], resp),
               Call(runs[r], "POST", "extra_vars", NoId, N_empty, body,
                    TIMEOUT, resp, {}),
               IF fault THEN remote ELSE [remote EXCEPT !.extra_vars = out[1]],
               fault)

activation_body(item, run) ==
  [name |-> item.name, project_id |-> run.project_id,
   decision_environment_id |-> run.denv_id,
   rulebook_id |-> run.rulebook_list[1],
   restart_policy |-> item.restart_policy, is_enabled |-> item.enabled,
   awx_token_id |-> run.awx_token_id, extra_var_id |-> run.extra_var_id]

\* A classification that takes every 400 for "already exists".
is_already_exists_any_400(resp) == resp.status_code = BAD_REQUEST

\* status 400 and "already exists" in ' '.join(response.json().get("name"))
is_already_exists(resp) ==
  resp.status_code = BAD_REQUEST /\ resp.name = AlreadyExists

\* A classification whose soft success reports nothing for the item.
activation_result_soft_unreported(run, resp, name) ==
  IF is_success(resp.status_code)
  THEN next_item([run EXCEPT !.response_list =
                     Append(@, [item |-> run.idx, id |-> resp.id, soft |-> FALSE])])
  ELSE IF resp.status_code = BAD_REQUEST /\ resp.name = Absent
  THEN fail_json(run, Msg("can only join an iterable", N_empty, Absent))
  ELSE IF is_already_exists(resp)
  THEN next_item(run)
  ELSE fail_json(run, Msg("Failed to create activation", name, resp.text))

\* The classification of the answer to the activation POST.  A 400 whose
\* JSON has no "name" key makes ' '.join(None) raise TypeError, which main()
\* turns into fail_json(msg=str(e)).
activation_result(run, resp, name) ==
  IF is_success(resp.status_code)
  THEN next_item([run EXCEPT !.response_list =
                     Append(@, [item |-> run.idx, id |-> resp.id, soft |-> FALSE])])
  ELSE IF resp.status_code = BAD_REQUEST /\ resp.name = Absent
  THEN fail_json(run, Msg("can only join an iterable", N_empty, Absent))
  ELSE IF is_already_exists(resp)
  THEN next_item([run EXCEPT !.response_list =
                     Append(@, [item |-> run.idx, id |-> NoId, soft |-> TRUE])])
  ELSE fail_json(run, Msg("Failed to create activation", name, resp.text))

\* A create_activations that updates the first activation.
activation_request_patch(body) ==
  [method |-> "PATCH", id |-> 1, body |-> body, timeout |-> TIMEOUT]

\* requests.post(activations_url, json=body, timeout=15): always a POST to
\* the collection.
activation_request(body) ==
  [method |-> "POST", id |-> NoId, body |-> body, timeout |-> TIMEOUT]

\* The ways the controller may reject an activation POST: a server error, a
\* 400 about another field than the name, a 400 about the name that is not
\* "already exists".
ActivationErrors ==
  {ErrorResponse(SERVER_ERROR),
   Response(BAD_REQUEST, <<>>, NoId, Absent, "rulebook_id: invalid"),
   Response(BAD_REQUEST, <<>>, NoId, "may not be blank", "name: may not be blank")}

post_activation(r) ==
  /\ Running(r) /\ runs[r].pc = "post_activation"
  /\ \E fault \in MayFault :
     \E err \in (IF fault THEN ActivationErrors ELSE {ErrorResponse(SERVER_ERROR)}) :
       LET req == activation_request(activation_body(Item(r), runs[r]))
           out == write_record(remote.activations, req.method, req.id, req.body)
           resp == IF fault THEN err ELSE out[2]
       IN Step(r, activation_result(runs[r], resp, Item(r).name),
               Call(runs[r], req.method, "activations", req.id, N_empty,
                    req.body, req.timeout, resp, NamesOf(remote.activations)),
               IF fault THEN remote ELSE [remote EXCEPT !.activations = out[1]],
               fault)

create_activations(r) ==
  \/ required_fields(r)
  \/ get_project_id(r)
  \/ get_denv_id(r)
  \/ get_token_id(r)
  \/ get_rulebooks(r)
  \/ post_extra_vars(r)
  \/ post_activation(r)

\* ------------------------------------------------------------------- runs
Init ==
  /\ kind \in Kinds
  /\ batch \in SeqsUpTo(ItemsOf(kind), MaxItems)
  /\ mode \in {"seq", "conc"}
  /\ mode = "conc" => Len(batch) <= MaxConcItems
  /\ remote = InitRemote
  /\ runs = [r \in Runs |-> NewRun]
  /\ calls = [r \in Runs |-> <<>>]
  /\ faults = 0
  /\ snapshot = InitRemote

Next ==
  \E r \in Runs :
    \/ main(r)
    \/ create_project(r)
    \/ create_decision_environments(r)
    \/ create_or_update_credentials(r)
    \/ create_activations(r)

Spec == Init /\ [][Next]_vars

\* ----------------------------------------------------------- the call log
\* The collection the module of this run writes its items to.
OwnColl ==
  CASE kind = "projects" -> "projects"
    [] kind = "decision_envs" -> "decision_environments"
    [] kind = "credentials" -> "credentials"
    [] OTHER -> "activations"

Reconciled == kind \in {"projects", "decision_envs", "credentials"}

IsWrite(c) == c.method \in {"POST", "PATCH"}

\* The existence probes and the primary writes of item i in run r.
Probes(r, i) ==
  {k \in DOMAIN calls[r] : /\ calls[r][k].item = i
                           /\ calls[r][k].method = "GET"
                           /\ calls[r][k].coll = OwnColl}

Writes(r, i) ==
  {k \in DOMAIN calls[r] : /\ calls[r][k].item = i
                           /\ IsWrite(calls[r][k])
                           /\ calls[r][k].coll = OwnColl}

\* Run r is through with item i.
ItemDone(r, i) ==
  \/ runs[r].idx > i
  \/ runs[r].idx = i /\ runs[r].status \in {"ok", "failed"}

\* ------------------------------------------------------------------- C1
\* The write that a successful probe of item i in run r calls for.
DecidedWrite(r, i, k) ==
  LET probe == calls[r][k]
      W == Writes(r, i)
  IN /\ Cardinality(W) <= 1
     /\ ItemDone(r, i) => Cardinality(W) = 1
     /\ \A w \in W :
          IF probe.found > 0
          THEN /\ calls[r][w].method = "PATCH"
               /\ calls[r][w].id = probe.first_id
               /\ w > k
          ELSE /\ calls[r][w].method = "POST"
               /\ calls[r][w].id = NoId
               /\ w > k

\* C1: for every project, decision-environment and credential item whose
\* existence probe returned a success status, exactly one primary write is
\* issued: a PATCH addressed to the id of the first returned record when the
\* result set holds a record, a POST to the collection when it is empty.
C1_ProbeDecidesWrite ==
  Reconciled =>
    \A r \in Runs : \A i \in 1..Len(batch) : \A k \in Probes(r, i) :
      is_success(calls[r][k].status_code) => DecidedWrite(r, i, k)

\* One run has updated an item it found and created one it did not find.
C1_Witness ==
  /\ Reconciled
  /\ \E r \in Runs :
       /\ \E i \in 1..Len(batch) : \E k \in Probes(r, i) : \E w \in Writes(r, i) :
            /\ calls[r][k].found > 0 /\ calls[r][w].method = "PATCH"
            /\ ItemDone(r, i)
       /\ \E i \in 1..Len(batch) : \E k \in Probes(r, i) : \E w \in Writes(r, i) :
            /\ is_success(calls[r][k].status_code) /\ calls[r][k].found = 0
            /\ calls[r][w].method = "POST" /\ ItemDone(r, i)

\* ------------------------------------------------------------------- C2
\* C2 as the spec states it: no POST to the activations collection is issued
\* for a name the collection holds when the item is processed (an existing
\* activation is updated instead).
C2_NoCreateOfExisting ==
  kind = "activations" =>
    \A r \in Runs : \A k \in DOMAIN calls[r] :
      (calls[r][k].coll = "activations" /\ calls[r][k].method = "POST")
        => calls[r][k].body.name \notin calls[r][k].collection_names

\* C2, amended: the activations collection is never probed and never
\* updated; the primary write of every activation item is a POST to the
\* collection, also when the collection holds an activation of that name.
C2_AlwaysCreate ==
  kind = "activations" =>
    \A r \in Runs : \A i \in 1..Len(batch) :
      /\ Probes(r, i) = {}
      /\ \A w \in Writes(r, i) :
           calls[r][w].method = "POST" /\ calls[r][w].id = NoId
      /\ (ItemDone(r, i) /\ runs[r].idx > i) => Cardinality(Writes(r, i)) = 1

\* An activation was POSTed under a name the collection already held.
C2_Witness ==
  /\ kind = "activations"
  /\ \E r \in Runs : \E k \in DOMAIN calls[r] :
       /\ calls[r][k].coll = "activations" /\ calls[r][k].method = "POST"
       /\ calls[r][k].body.name \in calls[r][k].collection_names

\* ------------------------------------------------------------------- C3
\* Two runs of the same batch in sequence against a controller that answers
\* every call and that no other actor writes to; the first run succeeded.
TwiceInSequence ==
  /\ mode = "seq"
  /\ faults = 0
  /\ runs[1].status = "ok"

\* Item i of run r ended through an UPDATE or through a soft success.
UpdatedOrSoft(r, i) ==
  \E w \in Writes(r, i) :
    \/ calls[r][w].method = "PATCH" /\ is_success(calls[r][w].status_code)
    \/ /\ calls[r][w].status_code = BAD_REQUEST
       /\ \E e \in DOMAIN runs[r].response_list :
            runs[r].response_list[e].item = i /\ runs[r].response_list[e].soft

\* C3: when the same batch is run twice in sequence, the second run has no
\* hard failure: each of its items ends through an UPDATE or a soft success.
C3_SecondRunNoHardFailure ==
  TwiceInSequence =>
    /\ runs[2].status # "failed"
    /\ \A i \in 1..Len(batch) : ItemDone(2, i) => UpdatedOrSoft(2, i)

\* ------------------------------------------------------------------- C4
\* C4: when the same batch is run twice in sequence, the controller after
\* the second run holds what it held after the first run, in every
\* collection.
C4_SecondRunAddsNothing ==
  (TwiceInSequence /\ runs[2].status \in {"ok", "failed"}) => remote = snapshot

\* ------------------------------------------------------------------- C5
\* The extra-vars writes of item i in run r.
ExtraVarWrites(r, i) ==
  {k \in DOMAIN calls[r] : /\ calls[r][k].item = i
                           /\ calls[r][k].coll = "extra_vars"}

\* C5: the primary write of an activation item with non-empty extra-vars
\* text is preceded by exactly one extra-vars POST of that item, whose
\* returned id is the extra_var_id of the primary body.
C5_ExtraVarIdInBody ==
  kind = "activations" =>
    \A r \in Runs : \A i \in 1..Len(batch) : \A w \in Writes(r, i) :
      Truthy(batch[i].extra_vars) =>
        /\ Cardinality(ExtraVarWrites(r, i)) = 1
        /\ \A k \in ExtraVarWrites(r, i) :
             /\ k < w
             /\ calls[r][k].method = "POST"
             /\ calls[r][w].body.extra_var_id # NoId
             /\ calls[r][w].body.extra_var_id = calls[r][k].resp_id

\* ------------------------------------------------------------------- C6
\* C6: when the extra-vars POST of an activation item is answered with a
\* non-success status, no primary write is issued for the item and the run
\* reports the failure.
C6_NoWriteAfterFailedExtraVars ==
  kind = "activations" =>
    \A r \in Runs : \A i \in 1..Len(batch) : \A k \in ExtraVarWrites(r, i) :
      ~is_success(calls[r][k].status_code) =>
        /\ Writes(r, i) = {}
        /\ ItemDone(r, i) => (runs[r].status = "failed" /\ runs[r].idx = i)

\* ------------------------------------------------------------------- C7
\* C7: for an activation item whose extra-vars text is empty or absent, no
\* call on the extra-vars collection is issued and the primary body has no
\* extra_var_id.
C7_NoExtraVarsNoWrite ==
  kind = "activations" =>
    \A r \in Runs : \A i \in 1..Len(batch) :
      ~Truthy(batch[i].extra_vars) =>
        /\ ExtraVarWrites(r, i) = {}
        /\ \A w \in Writes(r, i) : calls[r][w].body.extra_var_id = NoId

\* The activation of an item without extra-vars text was POSTed.
C7_Witness ==
  /\ kind = "activations"
  /\ \E r \in Runs : \E i \in 1..Len(batch) :
       /\ ~Truthy(batch[i].extra_vars)
       /\ \E w \in Writes(r, i) : is_success(calls[r][w].status_code)

\* ------------------------------------------------------------------- C8
\* The lookup c of a reference of item found no record for it.
Unresolved(c, item) ==
  /\ c.method = "GET"
  /\ CASE c.coll \in {"projects", "decision_environments"} -> c.result_names = {}
       [] c.coll = "awx_tokens" -> item.controller_token \notin c.result_names
       [] c.coll = "rulebooks" -> item.rulebook \notin c.result_names
       [] OTHER -> FALSE

\* The name of the reference that lookup c is about.
ReferenceOf(c, item) ==
  CASE c.coll = "projects" -> item.project_name
    [] c.coll = "decision_environments" -> item.decision_env
    [] c.coll = "awx_tokens" -> item.controller_token
    [] OTHER -> item.rulebook

ItemCalls(r, i) == {k \in DOMAIN calls[r] : calls[r][k].item = i}

\* C8: an activation item with a required reference that does not resolve
\* fails with an error naming the reference, and no write (extra-vars POST or
\* activation write) is issued for it.
C8_UnresolvedReferenceFails ==
  kind = "activations" =>
    \A r \in Runs : \A i \in 1..Len(batch) :
      /\ \A k \in ItemCalls(r, i) :
           Unresolved(calls[r][k], batch[i]) =>
             /\ \A w \in ItemCalls(r, i) : ~IsWrite(calls[r][w])
             /\ runs[r].status = "failed" /\ runs[r].idx = i
             /\ runs[r].msg.name = ReferenceOf(calls[r][k], batch[i])
      /\ ~HasRequired(batch[i]) =>
           /\ ItemCalls(r, i) = {}
           /\ ItemDone(r, i) => (runs[r].status = "failed" /\ runs[r].idx = i)

\* An item with extra-vars text failed on its decision environment, after
\* its project had resolved.
C8_Witness ==
  /\ kind = "activations"
  /\ \E r \in Runs :
       /\ runs[r].status = "failed"
       /\ runs[r].msg.msg = "Decision environment not found."
       /\ Truthy(batch[runs[r].idx].extra_vars)
       /\ \E k \in ItemCalls(r, runs[r].idx) :
            calls[r][k].coll = "decision_environments"
            /\ is_success(calls[r][k].status_code)
            /\ Unresolved(calls[r][k], batch[runs[r].idx])

\* ------------------------------------------------------------------- C9
\* Call k of run r is a POST of a project whose probe, issued while no
\* project of that name existed, found nothing.
CreateOfAbsent(r, k) ==
  /\ calls[r][k].method = "POST" /\ calls[r][k].coll = "projects"
  /\ \E g \in Probes(r, calls[r][k].item) :
       /\ g < k
       /\ is_success(calls[r][g].status_code) /\ calls[r][g].found = 0
       /\ calls[r][k].body.name \notin calls[r][g].collection_names

\* C9: of two concurrent runs that both probe the same absent project name
\* and both POST it, the one answered 400 "already exists" counts the item
\* as a success and its batch goes on.
C9_DuplicateRaceIsSuccess ==
  (kind = "projects" /\ mode = "conc") =>
    \A r \in Runs : \A k \in DOMAIN calls[r] :
      ( /\ CreateOfAbsent(r, k)
        /\ calls[r][k].status_code = BAD_REQUEST
        /\ \E o \in Runs \ {r} : \E j \in DOMAIN calls[o] :
             /\ CreateOfAbsent(o, j)
             /\ calls[o][j].status_code = CREATED
             /\ calls[o][j].body.name = calls[r][k].body.name )
      => runs[r].status # "failed"

\* ------------------------------------------------------------------ C10
\* The answer to call c is a hard failure of its item.
HardFailure(c) ==
  \/ /\ IsWrite(c) /\ c.coll = OwnColl /\ ~is_success(c.status_code)
     /\ ~(kind = "activations" /\ c.status_code = BAD_REQUEST
                                /\ c.name_error = AlreadyExists)
  \/ kind = "projects" /\ c.method = "GET" /\ c.coll = "projects"
       /\ ~is_success(c.status_code)
  \/ kind = "projects" /\ c.method = "GET" /\ c.coll = "credentials"
       /\ is_success(c.status_code) /\ c.found = 0
  \/ kind = "activations" /\ Unresolved(c, batch[c.item])

HardFailed(log) == \E k \in DOMAIN log : HardFailure(log[k])

\* C10: once an item of a run ended in a hard failure, the run is failed and
\* issues no further call, and no call ever deletes or reverts what the
\* controller holds.
C10_FailFast ==
  [][\A r \in Runs :
       /\ HardFailed(calls'[r]) => runs'[r].status = "failed"
       /\ HardFailed(calls[r]) => (calls'[r] = calls[r] /\ runs'[r] = runs[r])
       /\ runs[r].status = "failed" => (calls'[r] = calls[r] /\ runs'[r] = runs[r])
       /\ \A k \in DOMAIN calls'[r] :
            calls'[r][k].method \in {"GET", "POST", "PATCH"}
       /\ \A c \in DOMAIN remote : \A n \in DOMAIN remote[c] :
            n \in DOMAIN remote'[c] /\ remote'[c][n].id = remote[c][n].id]_vars

\* The first of two runs failed on its first item of two and stopped; the
\* second applied the first item and failed on the second.
C10_Witness ==
  /\ Len(batch) = 2
  /\ runs[1].status = "failed" /\ runs[1].idx = 1
  /\ HardFailed(calls[1])
  /\ runs[2].status = "failed" /\ runs[2].idx = 2
  /\ Len(runs[2].response_list) = 1

\* ------------------------------------------------------------------ C11
\* Entry e of the result sequence of run r is the outcome of a write of
\* item e: the returned id, or the rejection of a soft success.
EntryOfItem(r, e) ==
  LET entry == runs[r].response_list[e]
  IN /\ entry.item = e
     /\ \E w \in Writes(r, e) :
          /\ entry.id = calls[r][w].resp_id
          /\ entry.soft = ~is_success(calls[r][w].status_code)
          /\ \A v \in Writes(r, e) : v = w

\* C11: a run that completes successfully reports one entry per input item,
\* in the order of the input, the entry at position i being the outcome of
\* the write issued for item i; soft successes of activations included.
C11_ResultsMatchItems ==
  \A r \in Runs :
    runs[r].status = "ok" =>
      /\ runs[r].has_result
      /\ Len(runs[r].response_list) = Len(batch)
      /\ \A e \in 1..Len(batch) : EntryOfItem(r, e)

\* A run of two activations completed, one created and one a soft success.
C11_Witness ==
  /\ kind = "activations" /\ Len(batch) = 2
  /\ \E r \in Runs :
       /\ runs[r].status = "ok"
       /\ \E e \in 1..2 : runs[r].response_list[e].soft
       /\ \E e \in 1..2 : ~runs[r].response_list[e].soft

\* ------------------------------------------------------------------ C12
\* C12: when the existence probe of a project, decision-environment or
\* credential item is answered with a non-success status, the item is
\* reported as a failure and neither a CREATE nor an UPDATE is issued for
\* it.
C12_FailedProbeIsFailure ==
  Reconciled =>
    \A r \in Runs : \A i \in 1..Len(batch) : \A k \in Probes(r, i) :
      ~is_success(calls[r][k].status_code) =>
        /\ Writes(r, i) = {}
        /\ ItemDone(r, i) => (runs[r].status = "failed" /\ runs[r].idx = i)

\* ------------------------------------------------------------------ C13
\* The lookups of the references that item i of run r declares.
ReferenceLookups(r, i) ==
  {k \in ItemCalls(r, i) :
     /\ calls[r][k].method = "GET"
     /\ \/ kind = "projects" /\ calls[r][k].coll = "credentials"
        \/ kind = "activations"}

\* C13: when the lookup of a declared reference (the credential of a
\* project; the project, decision environment, token or rulebook of an
\* activation) is answered with a non-success status, the item is reported
\* as failed and no primary write is issued for it.
C13_FailedLookupIsFailure ==
  \A r \in Runs : \A i \in 1..Len(batch) : \A k \in ReferenceLookups(r, i) :
    ~is_success(calls[r][k].status_code) =>
      /\ Writes(r, i) = {}
      /\ ItemDone(r, i) => (runs[r].status = "failed" /\ runs[r].idx = i)

\* ------------------------------------------------------------------ C14
\* The optional fields of the items of each module and the key of the write
\* body that carries them.
OptionalFields ==
  CASE kind = "projects" -> {<<"description", "description">>}
    [] kind = "credentials" -> {<<"description", "description">>}
    [] kind = "decision_envs" -> {<<"image_url", "image_url">>}
    [] OTHER -> {}

\* C14: a write body has a key for an optional field (project description,
\* credential description, decision-environment image_url) only if the item
\* supplies a value for it; a field the item does not supply is not sent,
\* neither as null nor as an empty value.
C14_UnsuppliedFieldsOmitted ==
  \A r \in Runs : \A i \in 1..Len(batch) : \A w \in Writes(r, i) :
    \A f \in OptionalFields :
      batch[i][f[1]] = Absent => calls[r][w].body[f[2]] = Absent

\* ------------------------------------------------------------------ C15
\* Item i of run r, a project that declares no credential, went without a
\* credential lookup: its calls are the probe and the write of a project.
WithoutCredential(r, i) ==
  /\ \A k \in ItemCalls(r, i) : calls[r][k].coll = "projects"
  /\ Cardinality(Probes(r, i)) <= 1
  /\ ItemDone(r, i) => Cardinality(Probes(r, i)) = 1
  /\ \A k \in Probes(r, i) :
       /\ calls[r][k].query = replace_space_plus(batch[i].name)
       /\ is_success(calls[r][k].status_code) => DecidedWrite(r, i, k)
  /\ \A w \in Writes(r, i) :
       /\ calls[r][w].body.credential_id = NoId
       /\ calls[r][w].body.name = batch[i].name
       /\ calls[r][w].body.url = batch[i].git_url
  /\ (runs[r].status = "failed" /\ runs[r].idx = i) =>
       /\ runs[r].msg.msg \in {"Failed to check project",
                               "Failed to create/update project"}
       /\ \E k \in ItemCalls(r, i) : ~is_success(calls[r][k].status_code)

\* C15: for a project item that declares no credential no credential lookup
\* is issued, the item does not fail for want of a credential, its write body
\* has no credential_id, and its probe and its write are those of an item
\* whose credential resolved.
C15_NoCredentialOmitted ==
  kind = "projects" =>
    \A r \in Runs : \A i \in 1..Len(batch) :
      batch[i].credential = N_empty => WithoutCredential(r, i)

\* A run wrote a project without a credential after one with a credential
\* that resolved.
C15_Witness ==
  /\ kind = "projects" /\ Len(batch) = 2
  /\ batch[1].credential # N_empty /\ batch[2].credential = N_empty
  /\ \E r \in Runs :
       /\ runs[r].status = "ok"
       /\ \E w \in Writes(r, 1) : calls[r][w].body.credential_id # NoId
       /\ \E w \in Writes(r, 2) :
            /\ is_success(calls[r][w].status_code)
            /\ calls[r][w].body.credential_id = NoId

\* ------------------------------------------------------------------ C16
\* C16: every remote call of a run, lookup or write, in all four modules, is
\* issued with a bounded timeout.
C16_EveryCallHasTimeout ==
  \A r \in Runs : \A k \in DOMAIN calls[r] : calls[r][k].timeout # NoTimeout

\* ------------------------------------------------------------------ C17
\* Run r failed on the non-success answer to the last call it issued.
FailedOnResponse(r) ==
  /\ runs[r].status = "failed"
  /\ Len(calls[r]) > 0
  /\ calls[r][Len(calls[r])].item = runs[r].idx
  /\ ~is_success(calls[r][Len(calls[r])].status_code)

\* C17: the failure that a run reports for a non-success answer to a read or
\* a write carries the status code and the body of that answer and the name
\* of the item.
C17_FailureCarriesResponse ==
  \A r \in Runs :
    FailedOnResponse(r) =>
      LET c == calls[r][Len(calls[r])]
      IN /\ runs[r].msg.status = c.status_code
         /\ runs[r].msg.text = c.text
         /\ IsWrite(c) => runs[r].msg.name = batch[c.item].name

\* ------------------------------------------------------------------ C18
\* C18: a run of the activations module that is given an empty list of
\* activations does not complete successfully.
C18_EmptyActivationsRejected ==
  (kind = "activations" /\ Len(batch) = 0) =>
    \A r \in Runs : runs[r].status # "ok"

\* ------------------------------------------------------------------ C19
\* The entry that run r reports for the soft success of item i.
SoftEntry(r, i) ==
  \E e \in DOMAIN runs[r].response_list :
    runs[r].response_list[e].item = i /\ runs[r].response_list[e].soft

\* C19: an activation POST answered 400 with a name error that says "already
\* exists" is a soft success: an entry is appended for the item and the run
\* goes on with the next item; any other non-success answer to the
\* activation POST fails the run at that item and nothing follows.
C19_SoftSuccessOnly ==
  kind = "activations" =>
    \A r \in Runs : \A i \in 1..Len(batch) : \A w \in Writes(r, i) :
      ~is_success(calls[r][w].status_code) =>
        IF /\ calls[r][w].status_code = BAD_REQUEST
           /\ calls[r][w].name_error = AlreadyExists
        THEN /\ SoftEntry(r, i)
             /\ runs[r].idx > i \/ runs[r].status = "ok"
             /\ runs[r].status = "failed" => runs[r].idx > i
        ELSE /\ runs[r].status = "failed" /\ runs[r].idx = i
             /\ ~SoftEntry(r, i)
             /\ w = Len(calls[r])

\* A run had a soft success on its first activation, went on to the second
\* and failed there on a 400 about the name that is not "already exists".
C19_Witness ==
  /\ kind = "activations" /\ Len(batch) = 2
  /\ \E r \in Runs :
       /\ SoftEntry(r, 1)
       /\ runs[r].status = "failed" /\ runs[r].idx = 2
       /\ \E w \in Writes(r, 2) :
            /\ calls[r][w].status_code = BAD_REQUEST
            /\ calls[r][w].name_error \notin {AlreadyExists, Absent}

\* ------------------------------------------------------------------ C20
\* The rulebooks of project pid that have exactly this name, in the order
\* the controller lists them.
RulebooksOf(pid, name) ==
  SelectSeq(remote.rulebooks,
            LAMBDA rb : rb.project_id = pid /\ rb.name = name)

\* Write w of item i in run r pairs its project with the first rulebook of
\* the item's name listed for that project, found by a lookup filtered by
\* the id that the project lookup returned.
RulebookOfProject(r, i, w) ==
  LET body == calls[r][w].body
      own == RulebooksOf(body.project_id, batch[i].rulebook)
  IN /\ Len(own) > 0
     /\ body.rulebook_id = own[1].id
     /\ \E g \in ItemCalls(r, i) : \E p \in ItemCalls(r, i) :
          /\ calls[r][p].method = "GET" /\ calls[r][p].coll = "projects"
          /\ calls[r][g].method = "GET" /\ calls[r][g].coll = "rulebooks"
          /\ p < g /\ g < w
          /\ calls[r][p].first_id = body.project_id
          /\ calls[r][g].id = body.project_id

\* C20: in every activation write body rulebook_id is the id of the first
\* rulebook of the item's rulebook name among those listed for the project
\* of the body's project_id; the rulebook lookup follows the project lookup
\* and is filtered by that project id.
C20_RulebookOfResolvedProject ==
  kind = "activations" =>
    \A r \in Runs : \A i \in 1..Len(batch) : \A w \in Writes(r, i) :
      RulebookOfProject(r, i, w)

\* Two activations of one batch name the same rulebook in two projects and
\* each is written with the rulebook of its own project, neither of which is
\* the first rulebook the controller holds.
C20_Witness ==
  /\ kind = "activations" /\ Len(batch) = 2
  /\ batch[1].rulebook = batch[2].rulebook
  /\ \E r \in Runs : \E w1 \in Writes(r, 1) : \E w2 \in Writes(r, 2) :
       /\ calls[r][w1].body.project_id # calls[r][w2].body.project_id
       /\ calls[r][w1].body.rulebook_id # calls[r][w2].body.rulebook_id
       /\ calls[r][w1].body.rulebook_id # remote.rulebooks[1].id
       /\ calls[r][w2].body.rulebook_id # remote.rulebooks[1].id

\* ------------------------------------------------------------------ C21
\* Items i and j of the batch, i the first of its name and j a later one,
\* have a name of which the controller holds no record before the first run.
SameNewName(i, j) ==
  /\ i < j /\ batch[i].name = batch[j].name
  /\ \A h \in 1..(i - 1) : batch[h].name # batch[i].name
  /\ batch[i].name \notin NamesOf(InitRemote[OwnColl])

\* In the first run item i was created and item j updated the record that
\* item i created.
CreatedThenUpdated(i, j) ==
  /\ \A w \in Writes(1, i) : calls[1][w].method = "POST"
  /\ \A w \in Writes(1, j) :
       /\ calls[1][w].method = "PATCH"
       /\ \E v \in Writes(1, i) :
            v < w /\ calls[1][v].resp_id = calls[1][w].id
  /\ (faults = 0 /\ ItemDone(1, j)) =>
       /\ Writes(1, i) # {} /\ Writes(1, j) # {}
       /\ \A w \in Writes(1, j) : is_success(calls[1][w].status_code)
       /\ Cardinality({n \in DOMAIN remote[OwnColl] :
                         remote[OwnColl][n].name = batch[i].name}) = 1

\* C21: when a projects, decision-environments or credentials batch holds
\* two items of the same name and the controller holds no record of that
\* name beforehand, the first item issues a CREATE and the second an UPDATE
\* addressed to the id the first created, and the run leaves exactly one
\* record of that name.
C21_SecondSeesFirst ==
  (Reconciled /\ mode = "seq") =>
    \A i \in 1..Len(batch) : \A j \in 1..Len(batch) :
      ( /\ SameNewName(i, j)
        /\ \A k \in Probes(1, i) \cup Probes(1, j) :
             is_success(calls[1][k].status_code) )
      => CreatedThenUpdated(i, j)

\* ------------------------------------------------------------------ C22
\* Call k of run r is the credential lookup of a project item, answered
\* with a success status and no result.
CredentialNotFound(r, k) ==
  /\ calls[r][k].method = "GET" /\ calls[r][k].coll = "credentials"
  /\ is_success(calls[r][k].status_code)
  /\ calls[r][k].found = 0

\* C22: when the credential lookup of a project item that declares a
\* credential succeeds with an empty result set, the run ends as failed at
\* that item and neither the existence probe nor a write of the project is
\* issued for it.
C22_MissingCredentialFails ==
  kind = "projects" =>
    \A r \in Runs : \A i \in 1..Len(batch) : \A k \in ItemCalls(r, i) :
      CredentialNotFound(r, k) =>
        /\ declares_credential(batch[i])
        /\ runs[r].status = "failed" /\ runs[r].idx = i
        /\ Probes(r, i) = {} /\ Writes(r, i) = {}
        /\ k = Len(calls[r])
        /\ \A e \in DOMAIN runs[r].response_list :
             runs[r].response_list[e].item # i

\* A run wrote its first project, whose credential resolved, and failed on
\* the second, whose credential the controller does not hold.
C22_Witness ==
  /\ kind = "projects" /\ Len(batch) = 2
  /\ \E r \in Runs :
       /\ \E w \in Writes(r, 1) : calls[r][w].body.credential_id # NoId
       /\ \E k \in ItemCalls(r, 2) : CredentialNotFound(r, k)
       /\ runs[r].status = "failed" /\ runs[r].idx = 2
       /\ batch[2].credential \notin NamesOf(remote.credentials)

\* ------------------------------------------------------------------ C23
\* C23: every run that completes successfully reports changed = true and its
\* result sequence, whatever it wrote; a run that has failed reports neither
\* a result sequence nor a changed flag.
C23_ChangedAlwaysTrue ==
  \A r \in Runs :
    /\ runs[r].status = "ok" => (runs[r].changed /\ runs[r].has_result)
    /\ runs[r].status # "ok" => (~runs[r].changed /\ ~runs[r].has_result)

\* Every write of run r was an update that left the controller as it was
\* when the run started.
OnlyUnchangedUpdates(r) ==
  /\ Len(batch) > 0
  /\ \A i \in 1..Len(batch) :
       /\ Writes(r, i) # {}
       /\ \A w \in Writes(r, i) :
            calls[r][w].method = "PATCH" /\ is_success(calls[r][w].status_code)
  /\ remote = snapshot

\* The first run failed on its second item; the second run updated both
\* items to the values they had and reports changed = true.
C23_Witness ==
  /\ Reconciled /\ mode = "seq" /\ Len(batch) = 2
  /\ runs[1].status = "failed" /\ ~runs[1].has_result
  /\ Len(runs[1].response_list) = 1
  /\ runs[2].status = "ok" /\ runs[2].changed
  /\ OnlyUnchangedUpdates(2)

\* A run of the activations module in which every item was a soft success
\* reports changed = true.
C23_AllSoft ==
  /\ kind = "activations" /\ Len(batch) > 0
  /\ \E r \in Runs :
       /\ runs[r].status = "ok" /\ runs[r].changed
       /\ \A e \in DOMAIN runs[r].response_list : runs[r].response_list[e].soft

\* A run on an empty list reports changed = true.
C23_EmptyList ==
  /\ Len(batch) = 0
  /\ \E r \in Runs : runs[r].status = "ok" /\ runs[r].changed

====
